---- MODULE Spec2Model ----
(***************************************************************************)
(* Experiment configuration and resource lifecycle of speechless           *)
(* (src/main.py): the lazily resolved Corpus and BatchGenerator of a       *)
(* Configuration, the two training workflows and their run names, and the  *)
(* resolution of the fixed pretrained checkpoint.                          *)
(*                                                                         *)
(* Text is a sequence of one-character strings, so that formatting and     *)
(* parsing of run names are computed character by character.  A Path is a  *)
(* sequence of components, each component a text.  An optional value is a  *)
(* sequence of length 0 (None) or 1.                                       *)
(***************************************************************************)
EXTENDS Integers, Sequences, FiniteSets, TLC

VARIABLES
    self,               \* the Configuration instance (its five fields)
    corpus,             \* memo slot of the lazy property corpus
    batch_generator,    \* memo slot of the lazy property batch_generator
    loader_log,         \* every invocation of corpus_from_directory, in order
    returned,           \* the Corpus objects that accesses to corpus returned
    bg_built,           \* constructions of LabeledSpectrogramBatchGenerator
    fills,              \* calls of fill_cache
    fill_ops,           \* fill_up_cache calls that reached fill_cache
    loads,              \* models resolved from the pretrained checkpoint
    runs,               \* training runs that were started
    written,            \* directories and files written
    clock,              \* seconds elapsed on the wall clock
    ops,                \* operations performed so far
    last,               \* the last operation: inputs, steps in order, outcome
    named,              \* run names derived by two invocations (SpecNames)
    resolved            \* the model resolved for a target alphabet (SpecResolver)

vars == << self, corpus, batch_generator, loader_log, returned, bg_built, fills,
           fill_ops, loads, runs, written, clock, ops, last, named, resolved >>

-----------------------------------------------------------------------------
\* Bounds of the model.

MaxOps == 2
MaxClock == 1
MaxAlphabet == 3
MaxRuns == 1

-----------------------------------------------------------------------------
\* Text literals of src/main.py.

\* "home"
S_home ==
    << "h", "o", "m", "e" >>

\* "speechless-data"
S_speechless_data ==
    << "s", "p", "e", "e", "c", "h", "l", "e", "s", "s", "-", "d", "a", "t", "a" >>

\* "logs"
S_logs ==
    << "l", "o", "g", "s" >>

\* "nets"
S_nets ==
    << "n", "e", "t", "s" >>

\* "corpus"
S_corpus ==
    << "c", "o", "r", "p", "u", "s" >>

\* "spectrogram-cache"
S_spectrogram_cache ==
    << "s", "p", "e", "c", "t", "r", "o", "g", "r", "a", "m", "-", "c", "a", "c", "h",
       "e" >>

\* "kenlm"
S_kenlm ==
    << "k", "e", "n", "l", "m" >>

\* "english"
S_english ==
    << "e", "n", "g", "l", "i", "s", "h" >>

\* "corpus.csv"
S_corpus_csv ==
    << "c", "o", "r", "p", "u", "s", ".", "c", "s", "v" >>

\* "summary.csv"
S_summary_csv ==
    << "s", "u", "m", "m", "a", "r", "y", ".", "c", "s", "v" >>

\* "English"
S_English ==
    << "E", "n", "g", "l", "i", "s", "h" >>

\* "German"
S_German ==
    << "G", "e", "r", "m", "a", "n" >>

\* "De-freeze-1"
S_Custom ==
    << "D", "e", "-", "f", "r", "e", "e", "z", "e", "-", "1" >>

\* "de-corpus"
S_custom_corpus ==
    << "d", "e", "-", "c", "o", "r", "p", "u", "s" >>

\* "de-cache"
S_custom_cache ==
    << "d", "e", "-", "c", "a", "c", "h", "e" >>

\* "20170316"
S_date ==
    << "2", "0", "1", "7", "0", "3", "1", "6" >>

\* "-adam-small-learning-rate-complete-training-"
S_train_slug ==
    << "-", "a", "d", "a", "m", "-", "s", "m", "a", "l", "l", "-", "l", "e", "a", "r",
       "n", "i", "n", "g", "-", "r", "a", "t", "e", "-", "c", "o", "m", "p", "l", "e",
       "t", "e", "-", "t", "r", "a", "i", "n", "i", "n", "g", "-" >>

\* "-adam-small-learning-rate-transfer-to-"
S_transfer_slug ==
    << "-", "a", "d", "a", "m", "-", "s", "m", "a", "l", "l", "-", "l", "e", "a", "r",
       "n", "i", "n", "g", "-", "r", "a", "t", "e", "-", "t", "r", "a", "n", "s", "f",
       "e", "r", "-", "t", "o", "-" >>

\* "-freeze-"
S_freeze ==
    << "-", "f", "r", "e", "e", "z", "e", "-" >>

\* "20170316-180957-adam-small-learning-rate-complete-95"
S_best_net ==
    << "2", "0", "1", "7", "0", "3", "1", "6", "-", "1", "8", "0", "9", "5", "7", "-",
       "a", "d", "a", "m", "-", "s", "m", "a", "l", "l", "-", "l", "e", "a", "r", "n",
       "i", "n", "g", "-", "r", "a", "t", "e", "-", "c", "o", "m", "p", "l", "e", "t",
       "e", "-", "9", "5" >>

-----------------------------------------------------------------------------
\* Program constants.

mel_frequency_count == 128
batches_per_epoch == 100
layer_count == 11
load_epoch == 1192

None == << >>
Some(x) == << x >>

\* Path / component
Join(path, component) == Append(path, component)

base_directory == Join(<< S_home >>, S_speechless_data)
tensorboard_log_base_directory == Join(base_directory, S_logs)
nets_base_directory == Join(base_directory, S_nets)
corpus_base_directory == Join(base_directory, S_corpus)
spectrogram_cache_base_directory == Join(base_directory, S_spectrogram_cache)
kenlm_base_directory == Join(base_directory, S_kenlm)

\* The alphabets of grapheme_enconding, cut down to four symbols: the German
\* alphabet extends the English one.
english_frequent_characters == << "a", "b", "c" >>
german_frequent_characters == << "a", "b", "c", "d" >>

\* Configuration.__init__: a directory that is not given defaults to
\* <base>/<name>.
Configuration(name, allowed_characters, corpus_from_directory, corpus_directory, spectrogram_cache_directory) ==
    [name |-> name,
     spectrogram_cache_directory |->
         IF spectrogram_cache_directory # None
         THEN spectrogram_cache_directory[1]
         ELSE Join(spectrogram_cache_base_directory, name),
     corpus_directory |->
         IF corpus_directory # None
         THEN corpus_directory[1]
         ELSE Join(corpus_base_directory, name),
     corpus_from_directory |-> corpus_from_directory,
     allowed_characters |-> allowed_characters]

english ==
    Configuration(S_English, english_frequent_characters, "english_corpus",
                  None, None)

german(from_cached) ==
    Configuration(S_German, german_frequent_characters,
                  IF from_cached THEN "load_cached_corpus" ELSE "german_corpus",
                  None, None)

\* A Configuration built directly, with both directories given, a name that
\* holds the text "-freeze-" and an alphabet ordered unlike the English one.
custom ==
    Configuration(S_Custom, << "c", "b", "d" >>, "load_cached_corpus",
                  Some(Join(base_directory, S_custom_corpus)),
                  Some(Join(base_directory, S_custom_cache)))

Configurations == { english, german(TRUE), german(FALSE), custom }

-----------------------------------------------------------------------------
\* Formatting.

Digit(d) == << "0", "1", "2", "3", "4", "5", "6", "7", "8", "9" >>[d + 1]

RECURSIVE NatStr(_)
NatStr(n) == IF n < 10 THEN << Digit(n) >>
             ELSE NatStr(n \div 10) \o << Digit(n % 10) >>

\* str(n) of Python, as "{}".format(n) renders an int.
IntStr(n) == IF n < 0 THEN << "-" >> \o NatStr(0 - n) ELSE NatStr(n)

TwoDigits(n) == << Digit((n \div 10) % 10), Digit(n % 10) >>

\* tools.timestamp: the wall clock to the second, as date-time digits.  The
\* clock of the model starts at 18:09:59 of the day of S_date.
Timestamp(t) ==
    LET second == 18 * 3600 + 9 * 60 + 59 + t
    IN S_date \o << "-" >> \o TwoDigits(second \div 3600)
              \o TwoDigits((second \div 60) % 60) \o TwoDigits(second % 60)

\* Configuration.train, the run name.
RunNameTrain(stamp, name) == stamp \o S_train_slug \o name

\* The frozen count taken for the trainable count.
FrozenAsTrainable(trainable_layer_count) == trainable_layer_count

\* A transfer run name that leaves the count out.
RunNameTransferWithoutCount(stamp, name, frozen_layer_count) ==
    stamp \o S_transfer_slug \o name \o S_freeze

\* Configuration.train_transfer_from_best_english_model, the frozen count
\* and the run name.
FrozenLayerCount(trainable_layer_count) == layer_count - trainable_layer_count

RunNameTransfer(stamp, name, frozen_layer_count) ==
    stamp \o S_transfer_slug \o name \o S_freeze \o IntStr(frozen_layer_count)

\* The logs put beside the nets; the nets put into the checkpoint's directory.
LogDirectoryUnderNets(run_name) == Join(nets_base_directory, run_name)
NetDirectoryOfCheckpoint(run_name) == Join(nets_base_directory, S_best_net)

LogDirectory(run_name) == Join(tensorboard_log_base_directory, run_name)
NetDirectory(run_name) == Join(nets_base_directory, run_name)

-----------------------------------------------------------------------------
\* The model resolver.

Range(s) == { s[i] : i \in 1..Len(s) }
IndexOf(s, x) == CHOOSE i \in 1..Len(s) : s[i] = x

\* The symbols the output layer reserves beside the alphabet.
reserved_symbols == << "blank" >>

\* The alphabet the checkpoint of S_best_net was trained on; its output
\* weights for the symbol at position j are the value << "checkpoint", j >>.
checkpoint_alphabet == english_frequent_characters

\* net.Wav2Letter: a network sized for allowed_characters.  Without a
\* directory to load from every weight is fresh.  With one, the output
\* weights of a symbol that the loaded model knows are the loaded model's
\* weights of that symbol, found by the symbol and not by its position, and
\* those of any other symbol are fresh.  A frozen_layer_count outside
\* 0..layer_count is rejected.
Wav2Letter(input_size_per_time_step, allowed_characters, load_model_from_directory, load_model_epoch, allowed_characters_for_loaded_model, frozen_layer_count, kenlm_directory) ==
    [input_size_per_time_step |-> input_size_per_time_step,
     allowed_characters |-> allowed_characters,
     load_model_from_directory |-> load_model_from_directory,
     load_epoch |-> load_model_epoch,
     allowed_characters_for_loaded_model |-> allowed_characters_for_loaded_model,
     frozen_layer_count |-> frozen_layer_count,
     kenlm_directory |-> kenlm_directory,
     rejected |-> ~(frozen_layer_count \in 0..layer_count),
     output_width |-> Len(allowed_characters) + Len(reserved_symbols),
     output_weights |->
         [i \in 1..Len(allowed_characters) |->
             IF /\ load_model_from_directory # None
                /\ allowed_characters[i]
                       \in Range(allowed_characters_for_loaded_model[1])
             THEN << "checkpoint",
                     IndexOf(allowed_characters_for_loaded_model[1],
                             allowed_characters[i]) >>
             ELSE << "fresh", i >>]]

\* load_best_wav2letter_model with the target alphabet passed as the loaded
\* model's alphabet too.
LoadBestTargetAsLoaded(input_size, frozen_layer_count, allowed_characters, use_ken_lm) ==
    Wav2Letter(input_size, allowed_characters,
               Some(Join(nets_base_directory, S_best_net)), Some(load_epoch),
               Some(allowed_characters), frozen_layer_count,
               IF use_ken_lm THEN Some(Join(kenlm_base_directory, S_english)) ELSE None)

load_best_wav2letter_model(input_size, frozen_layer_count, allowed_characters, use_ken_lm) ==
    Wav2Letter(input_size, allowed_characters,
               Some(Join(nets_base_directory, S_best_net)), Some(load_epoch),
               Some(english_frequent_characters), frozen_layer_count,
               IF use_ken_lm THEN Some(Join(kenlm_base_directory, S_english)) ELSE None)

-----------------------------------------------------------------------------
\* The lazy properties.  An operation works on a record e of the instance's
\* slots and counters, its steps so far (trace), the value its last property
\* access returned (value) and the error it raised, if any; a step of an
\* operation that has raised does nothing.

Begin ==
    [corpus |-> corpus, batch_generator |-> batch_generator,
     loader_log |-> loader_log, returned |-> returned, bg_built |-> bg_built,
     fills |-> fills, trace |-> << >>, value |-> None, error |-> "none"]

Step(e, event) == IF e.error # "none" THEN e ELSE [e EXCEPT !.trace = Append(@, event)]

\* A property that computes and does not store; a getter that stores the
\* failure of its computation.
MemoCorpusSkip(e, obj) == e
MemoBatchGeneratorSkip(e, obj) == e
RememberFailure(e) ==
    [e EXCEPT !.error = "DataError",
              !.corpus = Some([id |-> 0, directory |-> self.corpus_directory,
                               loader |-> "failed"])]

\* lazy, the store of a computed value in the instance.
MemoCorpus(e, obj) == [e EXCEPT !.corpus = Some(obj)]

\* lazy, a raising computation: the error leaves the property's getter.
RaiseFromLoader(e) == [e EXCEPT !.error = "DataError"]

\* Configuration.corpus
CorpusProperty(e, ok) ==
    IF e.error # "none" THEN e
    ELSE IF e.corpus # None
    THEN [e EXCEPT !.value = e.corpus,
                   !.returned = @ \cup { e.corpus[1] },
                   !.trace = Append(@, "corpus_cached")]
    ELSE LET called == [e EXCEPT !.loader_log =
                            Append(@, [directory |-> self.corpus_directory,
                                       loader |-> self.corpus_from_directory,
                                       ok |-> ok])]
             obj == [id |-> Len(called.loader_log),
                     directory |-> self.corpus_directory,
                     loader |-> self.corpus_from_directory]
         IN IF ok
            THEN [MemoCorpus(called, obj) EXCEPT
                      !.value = Some(obj),
                      !.returned = @ \cup { obj },
                      !.trace = Append(@, "corpus_loaded")]
            ELSE [RaiseFromLoader(called) EXCEPT
                      !.trace = Append(@, "corpus_failed")]

\* corpus.LabeledSpectrogramBatchGenerator.__init__: pairs the corpus with
\* the cache directory and neither reads nor writes the cache.
LabeledSpectrogramBatchGenerator(e, corpus_object, spectrogram_cache_directory) ==
    [e EXCEPT !.value = Some([corpus |-> corpus_object,
                              spectrogram_cache_directory |-> spectrogram_cache_directory]),
              !.bg_built = @ + 1,
              !.trace = Append(@, "batch_generator_built")]

MemoBatchGenerator(e, obj) == [e EXCEPT !.batch_generator = Some(obj)]

\* Configuration.batch_generator
BatchGeneratorProperty(e, ok) ==
    IF e.error # "none" THEN e
    ELSE IF e.batch_generator # None
    THEN [e EXCEPT !.value = e.batch_generator,
                   !.trace = Append(@, "batch_generator_cached")]
    ELSE LET c == CorpusProperty(e, ok)
         IN IF c.error # "none" THEN c
            ELSE LET built == LabeledSpectrogramBatchGenerator(
                                  c, c.value[1], self.spectrogram_cache_directory)
                 IN MemoBatchGenerator(built, built.value[1])

\* LabeledSpectrogramBatchGenerator.fill_cache
FillCache(e) ==
    IF e.error # "none" THEN e
    ELSE [e EXCEPT !.fills = @ + 1, !.trace = Append(@, "fill_cache")]

\* Wav2LetterWithCorpus handed the corpus directory for the cache directory.
Wav2LetterWithCorpusWrongDirectory(wav2letter, corpus_object, spectrogram_cache_directory) ==
    [wav2letter |-> wav2letter, corpus |-> corpus_object,
     spectrogram_cache_directory |-> self.corpus_directory]

\* net_with_corpus.Wav2LetterWithCorpus.__init__, what it is handed.
Wav2LetterWithCorpus(wav2letter, corpus_object, spectrogram_cache_directory) ==
    [wav2letter |-> wav2letter, corpus |-> corpus_object,
     spectrogram_cache_directory |-> spectrogram_cache_directory]

Commit(e) ==
    /\ corpus' = e.corpus
    /\ batch_generator' = e.batch_generator
    /\ loader_log' = e.loader_log
    /\ returned' = e.returned
    /\ bg_built' = e.bg_built
    /\ fills' = e.fills

\* What the last operation did.
Outcome(op, e, k, use_ken_lm, model, run_name) ==
    [op |-> op, trainable_layer_count |-> k, use_ken_lm |-> use_ken_lm,
     model |-> model, run_name |-> run_name,
     trace |-> e.trace, error |-> e.error, value |-> e.value,
     memo_before |-> corpus,
     loader_calls |-> Len(e.loader_log) - Len(loader_log)]

\* The values of trainable_layer_count: every count from one below the
\* valid range to one above it, and the ends of that range with a neighbour
\* of each.
TrainableLayerCounts == (0 - 1)..(layer_count + 1)
SampledLayerCounts == { 0 - 1, 0, 1, layer_count - 1, layer_count, layer_count + 1 }

-----------------------------------------------------------------------------
\* The state after Configuration(...) returned.

Init ==
    /\ self \in Configurations
    /\ corpus = None
    /\ batch_generator = None
    /\ loader_log = << >>
    /\ returned = {}
    /\ bg_built = 0
    /\ fills = 0
    /\ fill_ops = 0
    /\ loads = {}
    /\ runs = {}
    /\ written = {}
    /\ clock = 0
    /\ ops = 0
    /\ last = [op |-> "init", trainable_layer_count |-> None, use_ken_lm |-> None,
               model |-> None, run_name |-> None, trace |-> << >>,
               error |-> "none", value |-> None, memo_before |-> None,
               loader_calls |-> 0]
    /\ named = << >>
    /\ resolved = None

\* configuration.corpus, read directly
AccessCorpus ==
    /\ ops < MaxOps
    /\ \E ok \in BOOLEAN :
        \E e \in { CorpusProperty(Begin, ok) } :
           /\ Commit(e)
           /\ last' = Outcome("corpus", e, None, None, None, None)
    /\ ops' = ops + 1
    /\ UNCHANGED << self, fill_ops, loads, runs, written, clock, named, resolved >>

\* configuration.batch_generator, read directly
AccessBatchGenerator ==
    /\ ops < MaxOps
    /\ \E ok \in BOOLEAN :
        \E e \in { BatchGeneratorProperty(Begin, ok) } :
           /\ Commit(e)
           /\ last' = Outcome("batch_generator", e, None, None, None, None)
    /\ ops' = ops + 1
    /\ UNCHANGED << self, fill_ops, loads, runs, written, clock, named, resolved >>

\* Configuration.summarize_and_save_corpus
SummarizeAndSaveCorpus ==
    /\ ops < MaxOps
    /\ \E ok \in BOOLEAN :
        \E e1 \in { CorpusProperty(Begin, ok) } :
        \E e \in { Step(Step(Step(e1, "summary"), "summarize_to_csv"), "save") } :
           /\ Commit(e)
           /\ written' = IF e.error # "none" THEN written
                         ELSE written \cup { Join(self.corpus_directory, S_summary_csv),
                                             Join(self.corpus_directory, S_corpus_csv) }
           /\ last' = Outcome("summarize_and_save_corpus", e, None, None, None, None)
    /\ ops' = ops + 1
    /\ UNCHANGED << self, fill_ops, loads, runs, clock, named, resolved >>

\* Configuration.fill_up_cache
FillUpCache ==
    /\ ops < MaxOps
    /\ \E ok \in BOOLEAN :
        \E e \in { FillCache(BatchGeneratorProperty(Begin, ok)) } :
           /\ Commit(e)
           /\ fill_ops' = IF e.error # "none" THEN fill_ops ELSE fill_ops + 1
           /\ last' = Outcome("fill_up_cache", e, None, None, None, None)
    /\ ops' = ops + 1
    /\ UNCHANGED << self, loads, runs, written, clock, named, resolved >>

\* Configuration.test_best_model
TestBestModel ==
    /\ ops < MaxOps
    /\ \E use_ken_lm \in BOOLEAN, ok \in BOOLEAN :
        \E wav2letter \in { load_best_wav2letter_model(
                              mel_frequency_count, 0, self.allowed_characters, use_ken_lm) } :
        \E e1 \in { Step(Step(Begin, "load_best"), "weights_loaded") } :
        \E e2 \in { Step(BatchGeneratorProperty(e1, ok), "preview_batch") } :
        \E e \in { Step(BatchGeneratorProperty(e2, ok), "test_batches") } :
           /\ Commit(e)
           /\ loads' = loads \cup { wav2letter }
           /\ last' = Outcome("test_best_model", e, None, Some(use_ken_lm),
                              Some(wav2letter), None)
    /\ ops' = ops + 1
    /\ UNCHANGED << self, fill_ops, runs, written, clock, named, resolved >>

\* A training run: what names it and what Wav2LetterWithCorpus.train is given.
Run(workflow, stamp, frozen, run_name, trainer) ==
    [workflow |-> workflow, stamp |-> stamp, name |-> self.name, frozen |-> frozen,
     run_name |-> run_name,
     tensor_board_log_directory |-> LogDirectory(run_name),
     net_directory |-> NetDirectory(run_name),
     batches_per_epoch |-> batches_per_epoch,
     trainer |-> trainer]

\* Configuration.train
Train ==
    /\ ops < MaxOps
    /\ Cardinality(runs) < MaxRuns
    /\ \E ok \in BOOLEAN :
        \E run_name \in { RunNameTrain(Timestamp(clock), self.name) } :
        \E wav2letter \in { Wav2Letter(mel_frequency_count, self.allowed_characters,
                                     None, None, None, 0, None) } :
        \E e1 \in { Step(Step(Step(Begin, "timestamp"), "run_name"), "new_model") } :
        \E e2 \in { CorpusProperty(e1, ok) } :
        \E e \in { Step(Step(e2, "wav2letter_with_corpus"), "train") } :
        \E run \in { Run("train", Timestamp(clock), None, run_name,
                       Wav2LetterWithCorpus(wav2letter, e2.value,
                                            self.spectrogram_cache_directory)) } :
           /\ Commit(e)
           /\ runs' = IF e.error # "none" THEN runs ELSE runs \cup { run }
           /\ written' = IF e.error # "none" THEN written
                         ELSE written \cup { run.tensor_board_log_directory,
                                             run.net_directory }
           /\ last' = Outcome("train", e, None, None, Some(wav2letter), Some(run_name))
    /\ ops' = ops + 1
    /\ UNCHANGED << self, fill_ops, loads, clock, named, resolved >>

\* Configuration.train_transfer_from_best_english_model, called with a
\* trainable_layer_count of counts
TrainTransfer(counts) ==
    /\ ops < MaxOps
    /\ Cardinality(runs) < MaxRuns
    /\ \E trainable_layer_count \in counts, ok \in BOOLEAN :
        \E frozen_layer_count \in { FrozenLayerCount(trainable_layer_count) } :
        \E run_name \in { RunNameTransfer(Timestamp(clock), self.name, frozen_layer_count) } :
        \E wav2letter \in { load_best_wav2letter_model(
                              mel_frequency_count, frozen_layer_count,
                              self.allowed_characters, FALSE) } :
        \E e1 \in { Step(Step(Step(Begin, "timestamp"), "run_name"), "load_best") } :
        \E e2 \in { IF wav2letter.rejected
                  THEN [Step(e1, "rejected") EXCEPT !.error = "ConfigurationError"]
                  ELSE Step(e1, "weights_loaded") } :
        \E e3 \in { CorpusProperty(e2, ok) } :
        \E e \in { Step(Step(e3, "wav2letter_with_corpus"), "train") } :
        \E run \in { Run("transfer", Timestamp(clock), Some(frozen_layer_count), run_name,
                       Wav2LetterWithCorpus(wav2letter, e3.value,
                                            self.spectrogram_cache_directory)) } :
           /\ Commit(e)
           /\ loads' = IF wav2letter.rejected THEN loads ELSE loads \cup { wav2letter }
           /\ runs' = IF e.error # "none" THEN runs ELSE runs \cup { run }
           /\ written' = IF e.error # "none" THEN written
                         ELSE written \cup { run.tensor_board_log_directory,
                                             run.net_directory }
           /\ last' = Outcome("train_transfer_from_best_english_model", e,
                              Some(trainable_layer_count), None, Some(wav2letter),
                              Some(run_name))
    /\ ops' = ops + 1
    /\ UNCHANGED << self, fill_ops, clock, named, resolved >>

TrainTransferFromBestEnglishModel == TrainTransfer(SampledLayerCounts)

\* predict_recording: resolves the model with the defaults of
\* load_best_wav2letter_model and predicts from recordings it only reads.
PredictRecording ==
    /\ ops < MaxOps
    /\ LET wav2letter == load_best_wav2letter_model(
                             mel_frequency_count, 0, english_frequent_characters, FALSE)
           e == Step(Step(Step(Begin, "load_best"), "weights_loaded"), "predict")
       IN /\ loads' = loads \cup { wav2letter }
          /\ last' = Outcome("predict_recording", e, None, Some(FALSE), Some(wav2letter), None)
    /\ ops' = ops + 1
    /\ UNCHANGED << self, corpus, batch_generator, loader_log, returned, bg_built,
                    fills, fill_ops, runs, written, clock, named, resolved >>

\* A second passes on the wall clock.
Tick ==
    /\ clock < MaxClock
    /\ clock' = clock + 1
    /\ UNCHANGED << self, corpus, batch_generator, loader_log, returned, bg_built,
                    fills, fill_ops, loads, runs, written, ops, last, named, resolved >>

Next ==
    \/ AccessCorpus
    \/ AccessBatchGenerator
    \/ SummarizeAndSaveCorpus
    \/ FillUpCache
    \/ TestBestModel
    \/ Train
    \/ TrainTransferFromBestEnglishModel
    \/ PredictRecording
    \/ Tick

Spec == Init /\ [][Next]_vars

\* The transfer workflow alone, over every trainable_layer_count.
TrainTransferAnyCount == TrainTransfer(TrainableLayerCounts)

NextTransfer == TrainTransferAnyCount \/ Tick

SpecTransfer == Init /\ [][NextTransfer]_vars

-----------------------------------------------------------------------------
\* Run names as a function of (time, workflow, configuration name, count):
\* two training invocations, of any configurations at any two times.

Naming(workflow, stamp, name, frozen, run_name) ==
    [workflow |-> workflow, stamp |-> stamp, name |-> name, frozen |-> frozen,
     run_name |-> run_name]

InitNames == Init /\ self = english

NameTrain ==
    /\ Len(named) < 2
    /\ \E t \in 0..MaxClock, c \in Configurations :
        named' = Append(named, Naming("train", Timestamp(t), c.name, None,
                                      RunNameTrain(Timestamp(t), c.name)))
    /\ UNCHANGED << self, corpus, batch_generator, loader_log, returned, bg_built,
                    fills, fill_ops, loads, runs, written, clock, ops, last, resolved >>

NameTransfer ==
    /\ Len(named) < 2
    /\ \E t \in 0..MaxClock, c \in Configurations, k \in TrainableLayerCounts :
        named' = Append(named, Naming("transfer", Timestamp(t), c.name,
                                      Some(FrozenLayerCount(k)),
                                      RunNameTransfer(Timestamp(t), c.name,
                                                      FrozenLayerCount(k))))
    /\ UNCHANGED << self, corpus, batch_generator, loader_log, returned, bg_built,
                    fills, fill_ops, loads, runs, written, clock, ops, last, resolved >>

NextNames == NameTrain \/ NameTransfer

SpecNames == InitNames /\ [][NextNames]_vars

-----------------------------------------------------------------------------
\* The resolver as a function of the target alphabet, the frozen count and
\* the language-model toggle.

Symbols == { "a", "b", "c", "d" }

Alphabets ==
    { s \in UNION { [1..n -> Symbols] : n \in 1..MaxAlphabet } :
        \A i, j \in 1..Len(s) : s[i] = s[j] => i = j }

InitResolver == Init /\ self = english

Resolve ==
    /\ resolved = None
    /\ \E target \in Alphabets, frozen \in 0..layer_count, use_ken_lm \in BOOLEAN :
        resolved' = Some(load_best_wav2letter_model(mel_frequency_count, frozen,
                                                    target, use_ken_lm))
    /\ UNCHANGED << self, corpus, batch_generator, loader_log, returned, bg_built,
                    fills, fill_ops, loads, runs, written, clock, ops, last, named >>

SpecResolver == InitResolver /\ [][Resolve]_vars

-----------------------------------------------------------------------------
\* Reading text back.

StartsWith(s, p) == Len(p) <= Len(s) /\ SubSeq(s, 1, Len(p)) = p
EndsWith(s, p) == Len(p) <= Len(s) /\ SubSeq(s, Len(s) - Len(p) + 1, Len(s)) = p
OccursAt(s, p, i) == i + Len(p) - 1 <= Len(s) /\ SubSeq(s, i, i + Len(p) - 1) = p
Contains(s, p) == \E i \in 1..Len(s) : OccursAt(s, p, i)
Drop(s, n) == SubSeq(s, n + 1, Len(s))

IsDigit(c) == \E d \in 0..9 : Digit(d) = c
DigitValue(c) == CHOOSE d \in 0..9 : Digit(d) = c

RECURSIVE ParseNat(_)
ParseNat(s) == IF s = << >> THEN 0
               ELSE 10 * ParseNat(SubSeq(s, 1, Len(s) - 1)) + DigitValue(s[Len(s)])

IsInt(s) ==
    LET digits == IF s # << >> /\ s[1] = "-" THEN Drop(s, 1) ELSE s
    IN digits # << >> /\ \A i \in 1..Len(digits) : IsDigit(digits[i])

ParseInt(s) == IF s[1] = "-" THEN 0 - ParseNat(Drop(s, 1)) ELSE ParseNat(s)

\* Eight digits, a dash, six digits.
IsTimestamp(s) ==
    /\ Len(s) = 15
    /\ s[9] = "-"
    /\ \A i \in (1..15) \ { 9 } : IsDigit(s[i])

\* A run name read from its text alone: the first fifteen characters are the
\* timestamp, the slug that follows tells the workflow, and in a transfer
\* run the last "-freeze-" separates the configuration name from the count.
ParseRunName(s) ==
    LET stamp == SubSeq(s, 1, 15)
        rest == Drop(s, 15)
    IN IF StartsWith(rest, S_train_slug)
       THEN [ok |-> IsTimestamp(stamp), stamp |-> stamp, workflow |-> "train",
             name |-> Drop(rest, Len(S_train_slug)), frozen |-> None]
       ELSE IF StartsWith(rest, S_transfer_slug)
                /\ Contains(Drop(rest, Len(S_transfer_slug)), S_freeze)
       THEN LET body == Drop(rest, Len(S_transfer_slug))
                p == CHOOSE i \in 1..Len(body) :
                        /\ OccursAt(body, S_freeze, i)
                        /\ \A j \in (i + 1)..Len(body) : ~OccursAt(body, S_freeze, j)
                count == Drop(body, p + Len(S_freeze) - 1)
            IN [ok |-> IsTimestamp(stamp) /\ IsInt(count), stamp |-> stamp,
                workflow |-> "transfer", name |-> SubSeq(body, 1, p - 1),
                frozen |-> IF IsInt(count) THEN Some(ParseInt(count)) ELSE None]
       ELSE [ok |-> FALSE, stamp |-> stamp, workflow |-> "unknown",
             name |-> << >>, frozen |-> None]

TraceHas(event) == \E i \in 1..Len(last.trace) : last.trace[i] = event
AccessedCorpus == TraceHas("corpus_loaded") \/ TraceHas("corpus_failed") \/ TraceHas("corpus_cached")
AccessedBatchGenerator == TraceHas("batch_generator_built") \/ TraceHas("batch_generator_cached")
IsTraining == last.op \in { "train", "train_transfer_from_best_english_model" }
Successes == { i \in 1..Len(loader_log) : loader_log[i].ok }

\* The pretrained checkpoint: directory, epoch, trained alphabet.
CheckpointReference ==
    [directory |-> Join(nets_base_directory, S_best_net),
     epoch |-> load_epoch,
     alphabet |-> english_frequent_characters]

ReferenceOf(model) ==
    [directory |-> model.load_model_from_directory[1],
     epoch |-> model.load_epoch[1],
     alphabet |-> model.allowed_characters_for_loaded_model[1]]

IsUnder(path, directory) == Len(directory) <= Len(path) /\ SubSeq(path, 1, Len(directory)) = directory

-----------------------------------------------------------------------------
\* C1 as stated: over every sequence of accesses to the corpus, the loader
\* corpus_from_directory is invoked exactly once in total.
C1_LoaderInvokedExactlyOnce ==
    (returned # {} \/ loader_log # << >>) => Len(loader_log) = 1

\* C1, amended: every invocation of the loader is on the instance's
\* corpus_directory; the loader is invoked by an access only while no
\* invocation has succeeded, so at most one invocation succeeds and it is the
\* last one; every access that returns yields the one Corpus that invocation
\* produced, which is the memoized one; failed invocations add to the total.
C1_LoaderSucceedsOnceAndIsMemoized ==
    /\ \A i \in 1..Len(loader_log) :
        /\ loader_log[i].directory = self.corpus_directory
        /\ loader_log[i].loader = self.corpus_from_directory
        /\ loader_log[i].ok => i = Len(loader_log)
    /\ Cardinality(Successes) <= 1
    /\ Cardinality(returned) <= 1
    /\ corpus = None => returned = {} /\ Successes = {}
    /\ corpus # None =>
        /\ Successes = { Len(loader_log) }
        /\ returned = { corpus[1] }
        /\ corpus[1].id = Len(loader_log)
        /\ corpus[1].directory = self.corpus_directory
    /\ last.op \in { "corpus", "summarize_and_save_corpus" } /\ last.error = "none"
           => corpus # None /\ last.value = corpus

\* A second access got the memoized Corpus without a call of the loader.
C1_Witness ==
    /\ corpus # None
    /\ last.memo_before # None
    /\ TraceHas("corpus_cached")
    /\ last.loader_calls = 0

\* C2: the BatchGenerator does not exist at creation; only an operation that
\* accesses batch_generator constructs it; it is constructed at most once,
\* from the memoized Corpus and the instance's spectrogram_cache_directory;
\* within the constructing operation the Corpus is obtained before the
\* construction; and no fill_cache happens but the one fill_up_cache calls
\* itself, after the construction.
C2_BatchGeneratorBuiltLazilyOnce ==
    /\ ops = 0 => batch_generator = None /\ bg_built = 0
    /\ bg_built <= 1
    /\ batch_generator # None <=> bg_built = 1
    /\ batch_generator # None =>
        /\ corpus # None
        /\ batch_generator[1].corpus = corpus[1]
        /\ batch_generator[1].spectrogram_cache_directory = self.spectrogram_cache_directory
    /\ \A i \in 1..Len(last.trace) :
        last.trace[i] = "batch_generator_built" =>
            /\ last.op \in { "batch_generator", "fill_up_cache", "test_best_model" }
            /\ \E j \in 1..(i - 1) : last.trace[j] \in { "corpus_loaded", "corpus_cached" }
            /\ \A j \in 1..i : last.trace[j] # "fill_cache"
            /\ \A j \in 1..Len(last.trace) : j # i => last.trace[j] # "batch_generator_built"
    /\ ~(last.op \in { "batch_generator", "fill_up_cache", "test_best_model" })
           => ~AccessedBatchGenerator
    /\ TraceHas("fill_cache") => last.op = "fill_up_cache"
    /\ fills = fill_ops

\* test_best_model constructed the BatchGenerator and nothing filled the cache.
C2_Witness ==
    /\ last.op = "test_best_model"
    /\ TraceHas("batch_generator_built")
    /\ batch_generator # None
    /\ fills = 0

\* C3: when the loader fails during an access, the operation ends with that
\* failure at the access (nothing after it runs), the loader was invoked once
\* during the operation, neither a Corpus nor a BatchGenerator is memoized;
\* and an access that finds no memoized Corpus, as after a failure, invokes
\* the loader (once) instead of answering from a remembered failure.
C3_LoaderFailurePropagatesUncached ==
    /\ last.error = "DataError" =>
        /\ last.loader_calls = 1
        /\ last.trace # << >>
        /\ last.trace[Len(last.trace)] = "corpus_failed"
        /\ last.value = None
        /\ corpus = None
        /\ batch_generator = None
        /\ ~loader_log[Len(loader_log)].ok
    /\ (\E i \in 1..Len(loader_log) : ~loader_log[i].ok) /\ Successes = {}
           => corpus = None /\ batch_generator = None
    /\ AccessedCorpus /\ last.memo_before = None =>
        /\ last.loader_calls = 1
        /\ ~TraceHas("corpus_cached") \/ TraceHas("corpus_loaded")
    /\ last.error # "DataError" => ~TraceHas("corpus_failed")

\* The loader failed during one access and a later access invoked it again,
\* with success.
C3_Witness ==
    /\ Len(loader_log) = 2
    /\ ~loader_log[1].ok
    /\ loader_log[2].ok
    /\ last.error = "none"
    /\ last.loader_calls = 1
    /\ corpus # None

\* C4: train_transfer_from_best_english_model with a trainable_layer_count
\* whose frozen count is outside 0..layer_count is rejected before the run
\* name is derived, before load_best_wav2letter_model is called, before the
\* Corpus is loaded and before training starts.
C4_InvalidCountRejectedBeforeAnyStep ==
    /\ last.op = "train_transfer_from_best_english_model"
    /\ ~(layer_count - last.trainable_layer_count[1] \in 0..layer_count)
    => /\ last.error = "ConfigurationError"
       /\ ~TraceHas("run_name")
       /\ ~TraceHas("load_best")
       /\ ~TraceHas("weights_loaded")
       /\ ~AccessedCorpus
       /\ ~TraceHas("train")

\* C5: for every trainable_layer_count in 0..layer_count the resolver is
\* asked for frozen_layer_count = layer_count - trainable_layer_count, for
\* the Configuration's own alphabet, from the fixed checkpoint, and the run
\* name ends in "-freeze-" and that same count.
C5_FrozenCountToResolverAndRunName ==
    /\ last.op = "train_transfer_from_best_english_model"
    /\ last.trainable_layer_count[1] \in 0..layer_count
    => LET k == last.trainable_layer_count[1]
           model == last.model[1]
           run_name == last.run_name[1]
       IN /\ model.frozen_layer_count = layer_count - k
          /\ model.frozen_layer_count \in 0..layer_count
          /\ ~model.rejected
          /\ model.allowed_characters = self.allowed_characters
          /\ model.output_width = Len(self.allowed_characters) + Len(reserved_symbols)
          /\ ReferenceOf(model) = CheckpointReference
          /\ EndsWith(run_name, S_freeze \o IntStr(layer_count - k))
          /\ ParseRunName(run_name).frozen = Some(model.frozen_layer_count)
          /\ TraceHas("weights_loaded")
          /\ \A r \in runs : r.workflow = "transfer" =>
                /\ r.frozen = Some(r.trainer.wav2letter.frozen_layer_count)
                /\ ParseRunName(r.run_name).frozen = r.frozen

\* German, one trainable layer: ten frozen.
C5_Witness ==
    /\ last.op = "train_transfer_from_best_english_model"
    /\ last.trainable_layer_count = Some(1)
    /\ last.error = "none"
    /\ self.name = S_German
    /\ last.model[1].frozen_layer_count = 10
    /\ \E r \in runs : r.frozen = Some(10)

C8_RunNamesInjectiveAndParse ==
    \A i, j \in 1..Len(named) :
        LET a == named[i]
            b == named[j]
        IN /\ a.stamp # b.stamp => a.run_name # b.run_name
           /\ a.run_name = b.run_name <=>
                (a.stamp = b.stamp /\ a.workflow = b.workflow
                     /\ a.name = b.name /\ a.frozen = b.frozen)
           /\ ParseRunName(a.run_name) =
                [ok |-> TRUE, stamp |-> a.stamp, workflow |-> a.workflow,
                 name |-> a.name, frozen |-> a.frozen]

\* Two transfer runs of the configuration whose name holds "-freeze-", one
\* second apart, with the same frozen count.
C8_Witness ==
    /\ Len(named) = 2
    /\ named[1].stamp = Timestamp(0)
    /\ named[2].stamp = Timestamp(1)
    /\ named[1].name = S_Custom
    /\ named[2].name = S_Custom
    /\ named[1].frozen = Some(2)
    /\ named[2].frozen = Some(2)

C10_CheckpointFixedAndOnlyRead ==
    /\ \A m \in loads : ReferenceOf(m) = CheckpointReference
    /\ \A m \in loads :
        ReferenceOf(m) = [directory |-> << S_home, S_speechless_data, S_nets, S_best_net >>,
                          epoch |-> 1192, alphabet |-> << "a", "b", "c" >>]
    /\ \A p \in written : ~IsUnder(p, CheckpointReference.directory)
    /\ \A r \in runs :
        /\ r.net_directory # CheckpointReference.directory
        /\ r.tensor_board_log_directory # CheckpointReference.directory
        /\ r.net_directory \in written
        /\ r.tensor_board_log_directory \in written

\* A model with the language model and a model with frozen layers for another
\* alphabet were resolved, and a run wrote its directories.
C10_Witness ==
    /\ \E m \in loads : m.kenlm_directory # None
    /\ \E m \in loads : m.frozen_layer_count > 0 /\ m.allowed_characters # english_frequent_characters
    /\ runs # {}
    /\ written # {}

====
